---- MODULE Spec2Model ----
(***************************************************************************)
(* Wordle Buster: the constraint engine of wordle_engine.py (word-list     *)
(* loader, feedback scorer, consistency check, candidate filter, session), *)
(* the command-line loop of wordle_engine.main and the session handlers of *)
(* streamlit_app.py.                                                       *)
(*                                                                         *)
(* A Python str is a sequence of one-character strings; "None" stands for  *)
(* Python's None.  A call returns [raised, value]: raised is TRUE when the *)
(* call ends in an exception (the only one here is the AssertionError of   *)
(* score_guess).                                                           *)
(***************************************************************************)
EXTENDS Integers, Sequences, FiniteSets, TLC

VARIABLES
    pc,            \* position of the running program / harness
    words_txt,     \* the word source: sequence of raw lines
    word_list,     \* session.word_list (its contents)
    word_list_id,  \* identity of the list object session.word_list refers to
    next_id,       \* identity the next list built by load_word_list gets
    history,       \* session.history: sequence of GuessResult
    candidates,    \* latest result of get_candidates / filter_candidates
    result,        \* latest result of the call under study
    args,          \* arguments of the call under study
    color_grid,    \* st.session_state["color_grid"]
    active_row,    \* st.session_state["active_row"] (0-based)
    before         \* session state saved when "Reset session" is clicked

vars == <<pc, words_txt, word_list, word_list_id, next_id, history, candidates,
          result, args, color_grid, active_row, before>>

----------------------------------------------------------------------------
(* Characters and str methods                                              *)

NoneVal == "None"

LowerLetters == {"a", "b", "c", "g", "l", "m", "o", "w", "x", "y"}
UpperLetters == {"A", "B", "C", "G", "L", "M", "O", "W", "X", "Y"}
Whitespace == {" ", "\n"}

\* str.lower() on one character
lower_char(c) ==
    CASE c = "A" -> "a"
      [] c = "B" -> "b"
      [] c = "C" -> "c"
      [] c = "G" -> "g"
      [] c = "L" -> "l"
      [] c = "M" -> "m"
      [] c = "O" -> "o"
      [] c = "W" -> "w"
      [] c = "X" -> "x"
      [] c = "Y" -> "y"
      [] OTHER -> c

\* str.lower()
lower(s) == [i \in 1..Len(s) |-> lower_char(s[i])]

\* str.isalpha(): non-empty and every character a letter
isalpha(s) == Len(s) > 0 /\ \A i \in 1..Len(s) : s[i] \in LowerLetters \cup UpperLetters

\* str.strip(): drop leading and trailing whitespace
RECURSIVE lstrip(_)
lstrip(s) == IF Len(s) > 0 /\ s[1] \in Whitespace THEN lstrip(Tail(s)) ELSE s

RECURSIVE rstrip(_)
rstrip(s) ==
    IF Len(s) > 0 /\ s[Len(s)] \in Whitespace THEN rstrip(SubSeq(s, 1, Len(s) - 1)) ELSE s

strip(s) == rstrip(lstrip(s))

\* x in list
In(x, seq) == \E i \in 1..Len(seq) : seq[i] = x

\* list.index(x): the first position holding x
index(seq, x) == CHOOSE i \in 1..Len(seq) : seq[i] = x /\ \A j \in 1..(i - 1) : seq[j] # x

Return(v) == [raised |-> FALSE, value |-> v]
Raise == [raised |-> TRUE, value |-> <<>>]

WordLen == 5

----------------------------------------------------------------------------
(* load_word_list                                                          *)

RECURSIVE load_lines(_, _)
load_lines(lines, words) ==
    IF lines = <<>> THEN words
    ELSE LET w == lower(strip(Head(lines)))
         IN  load_lines(Tail(lines),
                        IF Len(w) = WordLen /\ isalpha(w) THEN Append(words, w) ELSE words)

load_word_list(lines) == load_lines(lines, <<>>)

----------------------------------------------------------------------------
(* score_guess                                                             *)

\* First pass: mark greens, consuming the matched secret letter
RECURSIVE first_pass(_, _, _)
first_pass(st, guess, i) ==
    IF i > WordLen THEN st
    ELSE first_pass(
            IF guess[i] = st.secret_chars[i]
            THEN [res |-> [st.res EXCEPT ![i] = "g"],
                  secret_chars |-> [st.secret_chars EXCEPT ![i] = NoneVal]]
            ELSE st,
            guess, i + 1)

\* Second pass: mark yellows, consuming the first unconsumed occurrence
RECURSIVE second_pass(_, _, _)
second_pass(st, guess, i) ==
    IF i > WordLen THEN st
    ELSE second_pass(
            IF st.res[i] = "g" THEN st
            ELSE IF In(guess[i], st.secret_chars)
            THEN [res |-> [st.res EXCEPT ![i] = "y"],
                  secret_chars |->
                      [st.secret_chars EXCEPT ![index(st.secret_chars, guess[i])] = NoneVal]]
            ELSE st,
            guess, i + 1)

\* a scorer that marks yellows without waiting for the greens to be consumed
score_guess_one_pass(secret, guess) ==
    IF ~(Len(secret) = Len(guess) /\ Len(guess) = WordLen) THEN Raise
    ELSE LET s == lower(secret)
             g == lower(guess)
             greens == [i \in 1..WordLen |-> IF g[i] = s[i] THEN "g" ELSE "b"]
             st == second_pass([res |-> greens, secret_chars |-> s], g, 1)
         IN  Return(st.res)

score_guess(secret, guess) ==
    IF ~(Len(secret) = Len(guess) /\ Len(guess) = WordLen) THEN Raise
    ELSE LET s == lower(secret)
             g == lower(guess)
             st0 == [res |-> [i \in 1..WordLen |-> "b"], secret_chars |-> s]
             st1 == first_pass(st0, g, 1)
             st2 == second_pass(st1, g, 1)
         IN  Return(st2.res)

----------------------------------------------------------------------------
(* word_matches_history, filter_candidates                                 *)

\* a checker that compares only the most recent record
word_matches_last(candidate, hist) ==
    IF hist = <<>> THEN Return(TRUE)
    ELSE LET s == score_guess(candidate, hist[Len(hist)][1])
         IN  IF s.raised THEN Raise ELSE Return(s.value = hist[Len(hist)][2])

\* a checker that scores the candidate against the guess as the secret
RECURSIVE word_matches_swapped(_, _)
word_matches_swapped(candidate, hist) ==
    IF hist = <<>> THEN Return(TRUE)
    ELSE LET s == score_guess(Head(hist)[1], candidate)
         IN  IF s.raised THEN Raise
             ELSE IF s.value # Head(hist)[2] THEN Return(FALSE)
             ELSE word_matches_swapped(candidate, Tail(hist))

\* hist is a sequence of <<guess, pattern>> tuples; stops at the first mismatch
RECURSIVE word_matches_loop(_, _)
word_matches_loop(candidate, hist) ==
    IF hist = <<>> THEN Return(TRUE)
    ELSE LET s == score_guess(candidate, Head(hist)[1])
         IN  IF s.raised THEN Raise
             ELSE IF s.value # Head(hist)[2] THEN Return(FALSE)
             ELSE word_matches_loop(candidate, Tail(hist))

word_matches_history(candidate, hist) == word_matches_loop(candidate, hist)

RECURSIVE filter_loop(_, _, _)
filter_loop(words, hist, acc) ==
    IF words = <<>> THEN Return(acc)
    ELSE LET m == word_matches_history(Head(words), hist)
         IN  IF m.raised THEN Raise
             ELSE filter_loop(Tail(words), hist,
                              IF m.value THEN Append(acc, Head(words)) ELSE acc)

\* a filter that returns the matches last-to-first
RECURSIVE reverse(_)
reverse(s) == IF s = <<>> THEN <<>> ELSE Append(reverse(Tail(s)), Head(s))

filter_candidates_reversed(words, hist) ==
    LET r == filter_loop(words, hist, <<>>)
    IN  IF r.raised THEN Raise ELSE Return(reverse(r.value))

\* a filter that loses its first match
filter_candidates_skip_first(words, hist) ==
    LET r == filter_loop(words, hist, <<>>)
    IN  IF r.raised THEN Raise
        ELSE Return(IF r.value = <<>> THEN <<>> ELSE Tail(r.value))

filter_candidates(words, hist) == filter_loop(words, hist, <<>>)

----------------------------------------------------------------------------
(* WordleSession                                                           *)

GuessResult(word, pattern) == [word |-> word, pattern |-> pattern]

MaxRows == 6

\* a session that stops recording once the board is full
add_guess_capped(hist, word, pattern) ==
    IF Len(hist) >= MaxRows THEN hist ELSE Append(hist, GuessResult(word, pattern))

\* a session that records the newest guess first
add_guess_front(hist, word, pattern) == <<GuessResult(word, pattern)>> \o hist

\* self.history.append(GuessResult(word=word, pattern=pattern))
add_guess(hist, word, pattern) == Append(hist, GuessResult(word, pattern))

get_history_tuples(hist) == [i \in 1..Len(hist) |-> <<hist[i].word, hist[i].pattern>>]

get_candidates(words, hist) == filter_candidates(words, get_history_tuples(hist))

----------------------------------------------------------------------------
(* Sample data                                                             *)

allow == <<"a", "l", "l", "o", "w">>
lolly == <<"l", "o", "l", "l", "y">>
local == <<"l", "o", "c", "a", "l">>
llama == <<"l", "l", "a", "m", "a">>

ggggg == <<"g", "g", "g", "g", "g">>
yygbb == <<"y", "y", "g", "b", "b">>

\* a words.txt: one raw line per word, with a short line and an upper-case line
WordsTxt ==
    << <<"a", "l", "l", "o", "w", "\n">>,
       <<"L", "O", "L", "L", "Y", "\n">>,
       <<"l", "o", "w", "\n">>,
       <<"l", "o", "c", "a", "l", "\n">>,
       <<" ", "l", "l", "a", "m", "a", " ", "\n">> >>

\* what a user may type at a prompt
RawGuesses ==
    { <<>>,
      lolly,
      <<" ", "A", "L", "L", "O", "W", " ">>,
      <<"l", "o", "w">>,
      <<"l", "o", "1", "l", "y">> }

RawPatterns ==
    { yygbb,
      <<"G", "G", "G", "G", "G">>,
      <<"g", "y">>,
      <<"g", "x", "g", "g", "g">> }

PatternSymbols == {"g", "y", "b"}

NoArgs == <<>>
NoGrid == <<>>
NoBefore == <<>>

\* Sequences over S of length at most n
SeqUpTo(S, n) == UNION {[1..k -> S] : k \in 0..n}

----------------------------------------------------------------------------
(* wordle_engine.main: the command-line loop                               *)

MaxHistory == 7

CliInit ==
    /\ pc = "prompt"
    /\ words_txt = WordsTxt
    /\ word_list = load_word_list(WordsTxt)      \* WORD_LIST, built at import
    /\ word_list_id = 1
    /\ next_id = 2
    /\ history = <<>>
    /\ candidates = Return(<<>>)                 \* nothing computed yet
    /\ result = "started"
    /\ args = NoArgs
    /\ color_grid = NoGrid
    /\ active_row = 0
    /\ before = NoBefore

\* One pass of the while loop up to session.add_guess: guess, then pattern
MainLoopInput(g, p) ==
    /\ pc = "prompt"
    /\ LET guess == lower(strip(g))
           pattern == lower(strip(p))
       IN  IF guess = <<>>
           THEN /\ pc' = "done"
                /\ UNCHANGED history
           ELSE IF Len(guess) # WordLen \/ ~isalpha(guess)
           THEN UNCHANGED <<pc, history>>
           ELSE IF Len(pattern) # WordLen
                   \/ \E i \in 1..Len(pattern) : pattern[i] \notin PatternSymbols
           THEN UNCHANGED <<pc, history>>
           ELSE /\ Len(history) < MaxHistory
                /\ history' = add_guess(history, guess, pattern)
                /\ pc' = "filter"
    /\ UNCHANGED <<words_txt, word_list, word_list_id, next_id, candidates, result, args,
                   color_grid, active_row, before>>

\* candidates = session.get_candidates(), printed
MainLoopCandidates ==
    /\ pc = "filter"
    /\ candidates' = get_candidates(word_list, history)
    /\ pc' = IF candidates'.raised THEN "crashed" ELSE "prompt"
    /\ UNCHANGED <<words_txt, word_list, word_list_id, next_id, history, result, args,
                   color_grid, active_row, before>>

CliNext ==
    \/ \E g \in RawGuesses, p \in RawPatterns : MainLoopInput(g, p)
    \/ MainLoopCandidates

SpecCli == CliInit /\ [][CliNext]_vars

----------------------------------------------------------------------------
(* WordleSession called directly                                           *)

MaxCalls == 2

ApiInit ==
    /\ pc = "api"
    /\ words_txt = WordsTxt
    /\ word_list = load_word_list(WordsTxt)
    /\ word_list_id = 1
    /\ next_id = 2
    /\ history = <<>>                            \* WordleSession.__init__
    /\ candidates = Return(<<>>)
    /\ result = "started"
    /\ args = NoArgs
    /\ color_grid = NoGrid
    /\ active_row = 0
    /\ before = NoBefore

CallAddGuess(word, pattern) ==
    /\ pc = "api"
    /\ Len(history) < MaxCalls
    /\ history' = add_guess(history, word, pattern)
    /\ args' = <<word, pattern>>
    /\ result' = "returned"
    /\ UNCHANGED <<pc, words_txt, word_list, word_list_id, next_id, candidates,
                   color_grid, active_row, before>>

CallGetCandidates ==
    /\ pc = "api"
    /\ candidates' = get_candidates(word_list, history)
    /\ result' = IF candidates'.raised THEN "raised" ELSE "returned"
    /\ args' = NoArgs
    /\ UNCHANGED <<pc, words_txt, word_list, word_list_id, next_id, history,
                   color_grid, active_row, before>>

ApiNext ==
    \/ \E w \in RawGuesses, p \in RawPatterns : CallAddGuess(w, p)
    \/ CallGetCandidates

Spec == ApiInit /\ [][ApiNext]_vars

----------------------------------------------------------------------------
(* A game played against a known secret: every guess is recorded with the  *)
(* pattern score_guess gives it                                            *)

MaxPlay == 3

PlayGuesses == {allow, lolly, local, llama, <<"l", "l", "o", "y", "a">>, <<"c", "o", "c", "o", "a">>}

PlayInit ==
    /\ pc = "play"
    /\ words_txt = WordsTxt
    /\ word_list = load_word_list(WordsTxt)
    /\ word_list_id = 1
    /\ next_id = 2
    /\ history = <<>>
    /\ candidates = get_candidates(word_list, history)
    /\ result = "started"
    /\ \E i \in 1..Len(word_list) : args = [secret |-> word_list[i]]
    /\ color_grid = NoGrid
    /\ active_row = 0
    /\ before = NoBefore

PlayGuess(g) ==
    /\ pc = "play"
    /\ Len(history) < MaxPlay
    /\ history' = add_guess(history, g, score_guess(args.secret, g).value)
    /\ candidates' = get_candidates(word_list, history')
    /\ result' = "added"
    /\ UNCHANGED <<pc, words_txt, word_list, word_list_id, next_id, args,
                   color_grid, active_row, before>>

PlayNext == \E g \in PlayGuesses : PlayGuess(g)

SpecPlay == PlayInit /\ [][PlayNext]_vars

----------------------------------------------------------------------------
(* score_guess on every pair of words over three letters, the guess typed  *)
(* in lower or in upper case                                               *)

ScoreLetters == {"a", "l", "o"}
ScoreWords == [1..WordLen -> ScoreLetters]
upper_char(c) == CASE c = "a" -> "A" [] c = "l" -> "L" [] c = "o" -> "O" [] OTHER -> c
upper(s) == [i \in 1..Len(s) |-> upper_char(s[i])]

ScoreInit ==
    /\ pc = "call"
    /\ \E s \in ScoreWords, g \in ScoreWords, caps \in BOOLEAN :
           args = [secret |-> s, guess |-> IF caps THEN upper(g) ELSE g]
    /\ result = Return(<<>>)
    /\ words_txt = <<>>
    /\ word_list = <<>>
    /\ word_list_id = 0
    /\ next_id = 1
    /\ history = <<>>
    /\ candidates = Return(<<>>)
    /\ color_grid = NoGrid
    /\ active_row = 0
    /\ before = NoBefore

ScoreGuess ==
    /\ pc = "call"
    /\ result' = score_guess(args.secret, args.guess)
    /\ pc' = "done"
    /\ UNCHANGED <<words_txt, word_list, word_list_id, next_id, history, candidates,
                   args, color_grid, active_row, before>>

ScoreNext == ScoreGuess

SpecScore == ScoreInit /\ [][ScoreNext]_vars

----------------------------------------------------------------------------
(* filter_candidates on every small vocabulary and history, applied twice  *)

MaxVocab == 3
MaxFilterHistory == 2

FilterWords == {allow, lolly, local}
FilterRecords == {<<lolly, yygbb>>, <<lolly, ggggg>>, <<allow, ggggg>>,
                  <<local, <<"y", "y", "b", "b", "g">> >>}

FilterInit ==
    /\ pc = "call"
    /\ word_list \in SeqUpTo(FilterWords, MaxVocab)
    /\ args \in SeqUpTo(FilterRecords, MaxFilterHistory)
    /\ candidates = Return(<<>>)
    /\ result = Return(<<>>)
    /\ words_txt = <<>>
    /\ word_list_id = 1
    /\ next_id = 2
    /\ history = <<>>
    /\ color_grid = NoGrid
    /\ active_row = 0
    /\ before = NoBefore

FilterOnce ==
    /\ pc = "call"
    /\ candidates' = filter_candidates(word_list, args)
    /\ pc' = IF candidates'.raised THEN "raised" ELSE "again"
    /\ UNCHANGED <<words_txt, word_list, word_list_id, next_id, history, result, args,
                   color_grid, active_row, before>>

FilterAgain ==
    /\ pc = "again"
    /\ result' = filter_candidates(candidates.value, args)
    /\ pc' = "done"
    /\ UNCHANGED <<words_txt, word_list, word_list_id, next_id, history, candidates, args,
                   color_grid, active_row, before>>

FilterNext == FilterOnce \/ FilterAgain

SpecFilter == FilterInit /\ [][FilterNext]_vars

----------------------------------------------------------------------------
(* load_word_list on every small word source                               *)

MaxLines == 3

RawLines ==
    { <<"a", "l", "l", "o", "w", "\n">>,
      <<"A", "l", "l", "o", "w", "\n">>,
      <<" ", "l", "o", "l", "l", "y", " ", "\n">>,
      <<"l", "o", "w", "\n">>,
      <<"l", "o", "1", "l", "y", "\n">>,
      <<"\n">> }

LoadInit ==
    /\ pc = "call"
    /\ words_txt \in SeqUpTo(RawLines, MaxLines)
    /\ word_list = <<>>
    /\ word_list_id = 0
    /\ next_id = 1
    /\ history = <<>>
    /\ candidates = Return(<<>>)
    /\ result = Return(<<>>)
    /\ args = NoArgs
    /\ color_grid = NoGrid
    /\ active_row = 0
    /\ before = NoBefore

LoadWordList ==
    /\ pc = "call"
    /\ word_list' = load_word_list(words_txt)
    /\ word_list_id' = next_id
    /\ next_id' = next_id + 1
    /\ pc' = "done"
    /\ UNCHANGED <<words_txt, history, candidates, result, args, color_grid, active_row,
                   before>>

LoadNext == LoadWordList

SpecLoad == LoadInit /\ [][LoadNext]_vars

----------------------------------------------------------------------------
(* streamlit_app.py: the session handlers.  Every rerun of the script      *)
(* starts with init_state, which fills in only the keys that are missing.  *)

MaxLoads == 2
MaxUiGuesses == 2
MaxClickCol == 2

UiGuesses == {lolly, <<"A", "L", "L", "O", "W">>, <<"l", "o", "w">>}

\* [["b"] * 5 for _ in range(6)]
EmptyGrid == [r \in 1..MaxRows |-> [c \in 1..WordLen |-> "b"]]

\* init_state on an empty st.session_state
UiInit ==
    /\ pc = "run"
    /\ words_txt = WordsTxt
    /\ word_list = load_word_list(words_txt)
    /\ word_list_id = 1
    /\ next_id = 2
    /\ history = <<>>
    /\ candidates = get_candidates(word_list, history)
    /\ result = "started"
    /\ args = NoArgs
    /\ color_grid = EmptyGrid
    /\ active_row = 0
    /\ before = NoBefore

\* colors = ["b", "y", "g"]; next_color = colors[(idx + 1) % len(colors)]
next_color(c) == CASE c = "b" -> "y" [] c = "y" -> "g" [] OTHER -> "b"

\* a click on a cell of the active row, then the rerun
cycle_color(col) ==
    /\ pc \in {"run", "reset"}
    /\ color_grid' = [color_grid EXCEPT ![active_row + 1][col] = next_color(@)]
    /\ pc' = "run"
    /\ before' = NoBefore
    /\ UNCHANGED <<words_txt, word_list, word_list_id, next_id, history, candidates,
                   result, args, active_row>>

\* "Apply Guess" submitted with the text typed, then the rerun
ApplyGuess(text) ==
    /\ pc \in {"run", "reset"}
    /\ LET guess == lower(strip(text))
       IN  IF Len(guess) # WordLen \/ ~isalpha(guess)
           THEN /\ result' = "error"
                /\ UNCHANGED <<history, active_row, candidates>>
           ELSE /\ Len(history) < MaxUiGuesses
                /\ history' = add_guess(history, guess, color_grid[active_row + 1])
                /\ result' = "success"
                /\ active_row' = IF active_row < 5 THEN active_row + 1 ELSE active_row
                /\ candidates' = get_candidates(word_list, history')
    /\ pc' = "run"
    /\ before' = NoBefore
    /\ UNCHANGED <<words_txt, word_list, word_list_id, next_id, args, color_grid>>

\* "Reset session": st.session_state.clear(), then the rerun's init_state
ResetSession ==
    /\ pc \in {"run", "reset"}
    /\ next_id <= MaxLoads
    /\ before' = [word_list |-> word_list, word_list_id |-> word_list_id,
                  history |-> history]
    /\ word_list' = load_word_list(words_txt)
    /\ word_list_id' = next_id
    /\ next_id' = next_id + 1
    /\ history' = <<>>
    /\ color_grid' = EmptyGrid
    /\ active_row' = 0
    /\ candidates' = get_candidates(word_list', history')
    /\ result' = "started"
    /\ pc' = "reset"
    /\ UNCHANGED <<words_txt, args>>

UiNext ==
    \/ \E col \in 1..MaxClickCol : cycle_color(col)
    \/ \E text \in UiGuesses : ApplyGuess(text)
    \/ ResetSession

SpecUi == UiInit /\ [][UiNext]_vars

----------------------------------------------------------------------------
(* Properties                                                              *)

WellFormedWord(w) == Len(w) = WordLen /\ \A i \in 1..Len(w) : w[i] \in LowerLetters
WellFormedPattern(p) == Len(p) = WordLen /\ \A i \in 1..Len(p) : p[i] \in PatternSymbols

\* a is a sub-sequence of b: b with some elements removed
RECURSIVE IsSubSeq(_, _)
IsSubSeq(a, b) ==
    IF a = <<>> THEN TRUE
    ELSE IF b = <<>> THEN FALSE
    ELSE IF Head(a) = Head(b) THEN IsSubSeq(Tail(a), Tail(b))
    ELSE IsSubSeq(a, Tail(b))

Count(s, c) == Cardinality({i \in 1..Len(s) : s[i] = c})
Min(a, b) == IF a <= b THEN a ELSE b
NoDuplicates(s) == \A i, j \in 1..Len(s) : s[i] = s[j] => i = j

\* C1: in every reachable state of a session every record of history has a
\* 5-letter lowercase word and a 5-symbol pattern over {g, y, b} (add_guess
\* rejects anything else and leaves history unchanged).
C1_HistoryWellFormed ==
    \A i \in 1..Len(history) :
        WellFormedWord(history[i].word) /\ WellFormedPattern(history[i].pattern)

\* C2: after a reset the history is empty, get_candidates returns the full
\* vocabulary the session had before the reset, in its order, and the session
\* refers to the same vocabulary object as before (not reloaded, not replaced).
C2_ResetKeepsVocabulary ==
    pc = "reset" =>
        /\ history = <<>>
        /\ candidates = Return(before.word_list)
        /\ word_list_id = before.word_list_id

\* C3: score_guess(S, G) is green exactly where G[i] = S[i], and for every
\* letter c the positions of G holding c that are green or yellow number
\* min(count of c in S, count of c in G).
C3_ScoreMultiset ==
    pc = "done" =>
        LET S == lower(args.secret)
            G == lower(args.guess)
            r == result.value
        IN  /\ ~result.raised
            /\ WellFormedPattern(r)
            /\ \A i \in 1..WordLen : r[i] = "g" <=> G[i] = S[i]
            /\ \A c \in LowerLetters :
                   Cardinality({i \in 1..WordLen : G[i] = c /\ r[i] # "b"})
                       = Min(Count(S, c), Count(G, c))

\* C3 witness: a scored guess with a green, a yellow, and a grey on a letter
\* the secret does hold (its occurrences were used up).
C3_Witness ==
    /\ pc = "done"
    /\ \E i, j, k \in 1..WordLen :
           /\ result.value[i] = "g"
           /\ result.value[j] = "y"
           /\ result.value[k] = "b"
           /\ In(lower(args.guess)[k], args.secret)

\* C4: every step that adds a guess leaves get_candidates a sub-sequence of
\* what it was before the step (so the candidate count never grows).
C4_CandidatesShrink ==
    [][Len(history') = Len(history) + 1 =>
           LET b == get_candidates(word_list, history)
               a == get_candidates(word_list', history')
           IN  /\ ~a.raised
               /\ ~b.raised
               /\ IsSubSeq(a.value, b.value)
               /\ Len(a.value) <= Len(b.value)]_vars

\* C4 witness: two guesses recorded, the first cut the vocabulary down to a
\* non-empty set and the second cut that set down further.
C4_Witness ==
    /\ Len(history) = 2
    /\ LET c1 == get_candidates(word_list, SubSeq(history, 1, 1)).value
           c2 == get_candidates(word_list, history).value
       IN  /\ Len(c1) < Len(word_list)
           /\ c1 # <<>>
           /\ Len(c2) < Len(c1)

\* C5: the sequence filter_candidates returns is a sub-sequence of the
\* vocabulary it was given.
C5_FilterSubSequence ==
    pc \in {"again", "done"} =>
        /\ ~candidates.raised
        /\ IsSubSeq(candidates.value, word_list)

\* C5 witness: a vocabulary that repeats a word, filtered down to a shorter
\* sequence that still holds two words.
C5_Witness ==
    /\ pc = "again"
    /\ ~NoDuplicates(word_list)
    /\ Len(candidates.value) >= 2
    /\ Len(candidates.value) < Len(word_list)

\* the typed inputs that are a well-formed word / pattern once stripped and lowercased
WellFormedGuesses == {g \in RawGuesses : WellFormedWord(lower(strip(g)))}
WellFormedPatterns == {p \in RawPatterns : WellFormedPattern(lower(strip(p)))}

\* C6: a pass of the loop given a well-formed word and pattern appends the
\* record, whatever the history holds (contradicting records, six or more
\* records), and get_candidates on the new history returns without raising.
C6_WellFormedAccepted ==
    [][\A g \in WellFormedGuesses, p \in WellFormedPatterns :
           MainLoopInput(g, p)
           => /\ history' = Append(history, GuessResult(lower(strip(g)), lower(strip(p))))
              /\ ~get_candidates(word_list', history').raised]_vars

\* C6 witness: a seventh record accepted on top of a history that already
\* contradicted itself (no candidate left), the first record having left some.
C6_Witness ==
    /\ pc = "prompt"
    /\ Len(history) > MaxRows
    /\ candidates = Return(<<>>)
    /\ get_candidates(word_list, SubSeq(history, 1, MaxRows)).value = <<>>
    /\ get_candidates(word_list, SubSeq(history, 1, 1)).value # <<>>

\* C7: every step keeps the vocabulary and the records already in history;
\* a step that accepts a guess adds exactly one record at the end, and the
\* get_candidates step changes neither history nor vocabulary.
C7_AppendOnly ==
    [][/\ word_list' = word_list
       /\ word_list_id' = word_list_id
       /\ Len(history') >= Len(history)
       /\ SubSeq(history', 1, Len(history)) = history
       /\ (pc = "prompt" /\ pc' = "filter") => Len(history') = Len(history) + 1
       /\ pc = "filter" => history' = history]_vars

\* C7 witness: two different records in history and get_candidates has run
\* after the second.
C7_Witness ==
    /\ pc = "prompt"
    /\ Len(history) >= 2
    /\ history[1] # history[2]
    /\ candidates = get_candidates(word_list, history)

\* C8: filtering the output of filter_candidates again with the same history
\* returns the identical sequence.
C8_FilterIdempotent == pc = "done" => result = candidates

\* C8 witness: a non-empty history that removed some words and kept others,
\* filtered twice.
C8_Witness ==
    /\ pc = "done"
    /\ args # <<>>
    /\ candidates.value # <<>>
    /\ Len(candidates.value) < Len(word_list)

\* C9: load_word_list returns the trimmed, lowercased lines that are exactly
\* 5 letters, in file order, and no word occurs in it twice.
C9_LoadDuplicateFree ==
    pc = "done" =>
        /\ word_list = SelectSeq([i \in 1..Len(words_txt) |-> lower(strip(words_txt[i]))],
                                 LAMBDA w : Len(w) = WordLen /\ isalpha(w))
        /\ NoDuplicates(word_list)

\* C10: when every guess is recorded with the pattern score_guess gives it
\* for the secret, the secret is among the candidates in every state.
C10_SecretSurvives ==
    /\ ~candidates.raised
    /\ In(args.secret, candidates.value)

\* C10 witness: three guesses, none of them the secret, have left the secret
\* as the only candidate.
C10_Witness ==
    /\ Len(history) = 3
    /\ \A i \in 1..Len(history) : history[i].word # args.secret
    /\ candidates.value = <<args.secret>>

====
